---- MODULE Spec2Model ----
(***************************************************************************)
(* Verification model of the natively-case website builder front end:      *)
(*   - the useAgentSession hook (WebSocket connection, reconnect backoff,   *)
(*     status polling, cleanup),                                           *)
(*   - the chat page's event-handling effect,                              *)
(*   - the session manager and event bus of the backend (its contract).    *)
(***************************************************************************)
EXTENDS Integers, Sequences, FiniteSets, TLC

\* ------------------------------------------------------------------------
\* Bounds of the model
\* ------------------------------------------------------------------------
MaxSockets == 4
MaxBackoffSockets == 6
MaxMsgSockets == 2
MaxInFlight == 2
MaxEvents == 3
MaxTurns == 2
MaxSendSockets == 2
MaxNodes == 3
MaxFiles == 3
MaxScans == 2
MaxNavs == 3
MaxHistory == 2
MaxGarbage == 1
MaxSessionSockets == 2

\* ------------------------------------------------------------------------
\* Values
\* ------------------------------------------------------------------------
NULL == "null"

\* Channel URLs a status response may carry. new WebSocket(url) throws a
\* SyntaxError for a malformed URL: "bad" stands for such a URL.
GoodUrls == {"wss://a/ws", "wss://b/ws"}
BadUrl == "not-a-ws-url"
Urls == GoodUrls \cup {BadUrl}
Sessions == {"s1"}
Statuses == {"initializing", "running"}

BaseDelayMs == 1000
MaxDelayMs == 30000
MaxExponent == 4

Min(a, b) == IF a < b THEN a ELSE b

RECURSIVE Pow2(_)
Pow2(n) == IF n <= 0 THEN 1 ELSE 2 * Pow2(n - 1)

\* AgentEvent: {event, timestamp, data}. status is data.status (NULL when absent);
\* payload is the field of data the front end reads for the kind (data.text,
\* data.tunnel_url, data.error, data.data.message.content), a sequence that is
\* empty when the field is absent or empty.
Ev(kind, status, payload) == [event |-> kind, status |-> status, payload |-> payload]

\* Raw frames on the socket: a JSON text of an event, or a text that is not JSON.
JsonFrame(e) == [raw |-> "json", value |-> e]
GarbageFrame == [raw |-> "garbage"]
ParseError == [event |-> "<<SyntaxError>>"]

\* JSON.parse of a frame: the event a JSON text encodes, or a thrown SyntaxError.
JSONParse(frame) == IF frame.raw = "json" THEN frame.value ELSE ParseError

\* Stream events of the chat page: streamed text, the preview URL, the end of a turn.
PageFrames ==
    { JsonFrame(Ev("claude_text", NULL, <<"a">>)),
      JsonFrame(Ev("claude_text", NULL, <<"b">>)),
      JsonFrame(Ev("dev_server_started", NULL, <<"https://preview-1">>)),
      JsonFrame(Ev("dev_server_started", NULL, <<"https://preview-2">>)),
      JsonFrame(Ev("turn_complete", NULL, << >>)),
      JsonFrame(Ev("pages_discovered", NULL, <<"index.html", "about.html">>)) }

HookFrames ==
    { GarbageFrame,
      JsonFrame(Ev("claude_text", NULL, <<"a">>)),
      JsonFrame(Ev("status_update", "running", << >>)) }

VARIABLES
    mounted,        \* the component using the hook is mounted
    sessionId,      \* the hook's sessionId argument (NULL before a session exists)
    refs,           \* the hook's useRef cells
    state,          \* the hook's useState value
    sockets,        \* live WebSocket objects: id -> [url, sid, readyState, failed]
    timers,         \* pending setTimeout callbacks: id -> [sid, delay, attempt]
    nextSocket,     \* id of the next WebSocket object
    nextTimer,      \* id of the next timer
    requests,       \* status requests in flight, per session id of the closure
    received,       \* events handed to handleMessage, in callback order
    afterOpen       \* what followed the last socket open: [opened, resetFrom, first]

hookVars == <<mounted, sessionId, refs, state, sockets, timers, nextSocket,
              nextTimer, requests, received, afterOpen>>

\* The chat page (ChatPage)
VARIABLES
    messages,             \* useState<Message[]>: [id, role, content]
    isLoading,
    isThinking,
    devUrl,
    iframeRefreshTrigger,
    effectDeps,           \* [events, devUrl] of the last run of the events effect
    processed,            \* console log '[Chat] Processing event:' of the effect
    turns,                \* calls of handleSendMessage: [content, sid, pc, session_id,
                          \*                              readyState, outcomes]
    wsOut                 \* frames handed to ws.send: [socket, message]

sendVars == <<turns, wsOut>>

pageVars == <<messages, isLoading, isThinking, devUrl, iframeRefreshTrigger,
              effectDeps, processed, sendVars>>

\* The backend: session registry, backing workers, the event bus of one session
VARIABLES
    registry,       \* session id -> session record
    spawned,        \* number of backing workers (sandboxes) spawned
    callers,        \* POST /api/chat callers: [pc, result, racing]
    busLog,         \* the session's published events, in sequence order
    subs            \* subscribers: [attached, attachedAt, queue, got]

\* The backend's sandbox: the preview process and its readiness probe
VARIABLES
    port,           \* the preview port: [listening, status]
    probe           \* the probe loop: [pc, attempt, elapsed, heard, last]

probeVars == <<port, probe>>

\* The backend's sandbox: the workspace tree
VARIABLES
    tree,           \* path -> [dir, mode, orig]: kind, permission bits, bits at creation
    fixRuns         \* runs of the permission fix since the tree last changed

fsVars == <<tree, fixRuns>>

\* The backend's sandbox: the files of the workspace and the page scans
VARIABLES
    files,          \* relative path -> [readable, title, ids]
    firstOrder,     \* the directory listing order of the first scan
    scans           \* scans of the present file set: [result, reordered]

scanVars == <<files, firstOrder, scans>>

\* The session at the backend, as the hook's requests and socket see it
VARIABLES
    serverStatus,   \* the lifecycle state of the session
    answers,        \* the status responses on their way to the client
    published,      \* the events of the session, in publication order
    cursor,         \* per socket: how many of the events were sent on it
    discarded       \* per frame that was not JSON: the number of events received before it

sessionVars == <<serverStatus, answers, published, cursor, discarded>>

\* The preview (WebsitePreview) and its Page Selector
VARIABLES
    preview,        \* the props of WebsitePreview: [devUrl, pages]
    currentPath,    \* WebsitePreview: the parts of the path shown in the iframe
    refreshKey,     \* WebsitePreview: the key of the iframe
    isOpen,         \* PageSelector: the dropdown is open
    expandedPage,   \* PageSelector: the path of the expanded page, or NULL
    selectedPage,   \* PageSelector (DropdownMenu variant): the title selected last
    lastClick       \* the entry of the selector clicked last

previewVars == <<preview, currentPath, refreshKey, isOpen, expandedPage, selectedPage,
                 lastClick>>

\* The backend's sandbox: the section whose display name was derived last
VARIABLES
    section         \* [n, m, gap, tagged, inner, id, name]

nameVars == <<section>>

sandboxVars == <<probeVars, fsVars, scanVars, nameVars>>

serverVars == <<registry, spawned, callers, busLog, subs, sandboxVars>>

notSandbox == <<registry, spawned, callers, busLog, subs, hookVars, pageVars, previewVars,
                sessionVars>>

notProbe == <<fsVars, scanVars, nameVars, notSandbox>>

notFs == <<probeVars, scanVars, nameVars, notSandbox>>

notScan == <<probeVars, fsVars, nameVars, notSandbox>>

notName == <<probeVars, fsVars, scanVars, notSandbox>>

notPreview == <<hookVars, pageVars, serverVars, sessionVars>>

notSession == <<pageVars, serverVars, previewVars>>

vars == <<hookVars, pageVars, serverVars, previewVars, sessionVars>>

notHook == <<pageVars, serverVars, previewVars, sessionVars>>

\* ------------------------------------------------------------------------
\* The hook: useAgentSession
\* ------------------------------------------------------------------------
InitRefs ==
    [ wsRef                |-> 0,
      reconnectTimeoutRef  |-> 0,
      pollIntervalRef      |-> FALSE,
      hasConnectedRef      |-> FALSE,
      currentWsUrlRef      |-> NULL,
      isConnectingRef      |-> FALSE,
      reconnectAttemptsRef |-> 0,
      shouldReconnectRef   |-> TRUE ]

InitState ==
    [ status       |-> "idle",
      events       |-> << >>,
      error        |-> NULL,
      isConnected  |-> FALSE,
      websocketUrl |-> NULL ]

\* The world a handler runs in and returns.
World == [ refs |-> refs, state |-> state, sockets |-> sockets, timers |-> timers,
           nextSocket |-> nextSocket, nextTimer |-> nextTimer ]

Upd(rec, upd) == [k \in DOMAIN rec |-> IF k \in DOMAIN upd THEN upd[k] ELSE rec[k]]

SetRefs(W, upd) == [W EXCEPT !.refs = Upd(W.refs, upd)]

\* setState(prev => ({...prev, ...upd})); React drops updates of an unmounted component.
SetState(W, upd) == IF mounted THEN [W EXCEPT !.state = Upd(W.state, upd)] ELSE W

\* ws.readyState, and wsRef.current?.readyState === WebSocket.OPEN
ReadyState(W, id) == IF id \in DOMAIN W.sockets THEN W.sockets[id].readyState ELSE "CLOSED"
IsOpen(W, id) == id # 0 /\ ReadyState(W, id) = "OPEN"

\* WebSocket.close(): CONNECTING or OPEN -> CLOSING (closing a socket that is still
\* connecting fails the connection, so its error event fires before its close
\* event); no effect on a CLOSING or CLOSED socket.
CloseSocket(W, id) ==
    IF id \in DOMAIN W.sockets /\ W.sockets[id].readyState \in {"CONNECTING", "OPEN"}
    THEN [W EXCEPT !.sockets[id].readyState = "CLOSING",
                   !.sockets[id].failed = (W.sockets[id].readyState = "CONNECTING")]
    ELSE W

\* clearTimeout(id)
ClearTimeout(W, id) ==
    [W EXCEPT !.timers = [t \in DOMAIN W.timers \ {id} |-> W.timers[t]]]

\* new WebSocket(url) throws on a malformed URL.
CtorThrows(url) == url = BadUrl

\* connectWebSocket, lines 86-105: the URL has changed, close the old connection.
UrlChanged(W) ==
    LET W1 == IF W.refs.reconnectTimeoutRef # 0
              THEN SetRefs(ClearTimeout(W, W.refs.reconnectTimeoutRef),
                           [reconnectTimeoutRef |-> 0])
              ELSE W
        W2 == IF W1.refs.wsRef # 0
              THEN SetRefs(CloseSocket(W1, W1.refs.wsRef), [wsRef |-> 0])
              ELSE W1
    IN  SetRefs(W2, [hasConnectedRef |-> FALSE, isConnectingRef |-> FALSE,
                     reconnectAttemptsRef |-> 0])

\* connectWebSocket, lines 112-188: mark the attempt and create the socket.
OpenSocket(W, sid, wsUrl) ==
    LET W1 == SetRefs(W, [hasConnectedRef |-> TRUE, isConnectingRef |-> TRUE,
                          shouldReconnectRef |-> TRUE, currentWsUrlRef |-> wsUrl])
    IN  IF CtorThrows(wsUrl)
        THEN SetState(SetRefs(W1, [isConnectingRef |-> FALSE]),
                      [error |-> "Connection failed"])
        ELSE LET id == W1.nextSocket
                 ws == [url |-> wsUrl, sid |-> sid, readyState |-> "CONNECTING",
                        failed |-> FALSE]
             IN  SetRefs([W1 EXCEPT !.sockets = W1.sockets @@ (id :> ws),
                                    !.nextSocket = id + 1],
                         [wsRef |-> id])

connectWebSocket(W, sid, wsUrl, force) ==
    IF ~force /\ IsOpen(W, W.refs.wsRef) /\ W.refs.currentWsUrlRef = wsUrl
    THEN W
    ELSE IF W.refs.isConnectingRef /\ ~force
    THEN W
    ELSE LET W1 == IF W.refs.currentWsUrlRef # NULL /\ W.refs.currentWsUrlRef # wsUrl
                   THEN UrlChanged(W)
                   ELSE W
         IN  IF W1.refs.hasConnectedRef /\ ~force
             THEN W1
             ELSE OpenSocket(W1, sid, wsUrl)

\* ws.onopen without the reset of reconnectAttemptsRef
OnOpenKeepsAttempts(W) ==
    SetState(SetRefs(W, [isConnectingRef |-> FALSE]),
             [isConnected |-> TRUE, error |-> NULL])

\* ws.onopen
OnOpen(W) ==
    SetState(SetRefs(W, [isConnectingRef |-> FALSE, reconnectAttemptsRef |-> 0]),
             [isConnected |-> TRUE, error |-> NULL])

\* ws.onerror
OnError(W) ==
    SetState(SetRefs(W, [isConnectingRef |-> FALSE]),
             [error |-> "WebSocket connection error", isConnected |-> FALSE])

\* The delay of reconnect attempt n (line 168).
ReconnectDelay(n) == Min(BaseDelayMs * Pow2(Min(n - 1, MaxExponent)), MaxDelayMs)

\* ws.onclose of a socket whose closure holds sid
OnClose(W, sid) ==
    LET W1 == SetState(SetRefs(W, [isConnectingRef |-> FALSE]), [isConnected |-> FALSE])
    IN  IF sid # NULL /\ W1.refs.currentWsUrlRef # NULL /\ W1.refs.shouldReconnectRef
        THEN LET n  == W1.refs.reconnectAttemptsRef + 1
                 id == W1.nextTimer
                 tm == [sid |-> sid, delay |-> ReconnectDelay(n), attempt |-> n]
             IN  SetRefs([W1 EXCEPT !.timers = W1.timers @@ (id :> tm),
                                    !.nextTimer = id + 1],
                         [reconnectAttemptsRef |-> n, reconnectTimeoutRef |-> id])
        ELSE W1

\* The reconnect timer's callback (lines 172-177)
OnReconnectTimer(W, sid) ==
    IF W.refs.shouldReconnectRef /\ W.refs.currentWsUrlRef # NULL
    THEN connectWebSocket(SetRefs(W, [hasConnectedRef |-> FALSE]),
                          sid, W.refs.currentWsUrlRef, TRUE)
    ELSE W

\* handleMessage putting the new event first
handleMessagePrepends(W, event) ==
    SetState(W, [events |-> <<event>> \o W.state.events,
                 status |-> IF event.status # NULL THEN event.status ELSE W.state.status])

\* handleMessage
handleMessage(W, event) ==
    SetState(W, [events |-> Append(W.state.events, event),
                 status |-> IF event.status # NULL THEN event.status ELSE W.state.status])

\* ws.onmessage appending an event for a frame that is not JSON too
OnMessageKeepsAll(W, frame) ==
    IF JSONParse(frame) = ParseError
    THEN handleMessage(W, Ev("unparsed", NULL, << >>))
    ELSE handleMessage(W, JSONParse(frame))

\* ws.onmessage
OnMessage(W, frame) ==
    IF JSONParse(frame) = ParseError THEN W ELSE handleMessage(W, JSONParse(frame))

\* fetchSessionStatus after apiClient.getSession resolved (lines 199-225); sid is
\* the sessionId of the effect's closure.
OnStatus(W, sid, status, url) ==
    LET W1 == SetState(W, [status |-> status,
                           websocketUrl |-> IF url # NULL THEN url
                                            ELSE W.state.websocketUrl])
        isCurrentlyConnected == IsOpen(W1, W1.refs.wsRef)
        isSameUrl == W1.refs.currentWsUrlRef = url
    IN  IF url = NULL THEN W1
        ELSE IF ~isSameUrl /\ W1.refs.currentWsUrlRef # NULL
        THEN connectWebSocket(W1, sid, url, FALSE)
        ELSE IF ~isCurrentlyConnected /\ ~W1.refs.hasConnectedRef
                /\ ~W1.refs.isConnectingRef
        THEN connectWebSocket(W1, sid, url, FALSE)
        ELSE W1

\* The effect's cleanup (lines 240-260)
Cleanup(W) ==
    LET W0 == SetRefs(W, [shouldReconnectRef |-> FALSE])
        W1 == IF W0.refs.wsRef # 0
              THEN SetRefs(CloseSocket(W0, W0.refs.wsRef), [wsRef |-> 0])
              ELSE W0
        W2 == IF W1.refs.reconnectTimeoutRef # 0
              THEN SetRefs(ClearTimeout(W1, W1.refs.reconnectTimeoutRef),
                           [reconnectTimeoutRef |-> 0])
              ELSE W1
    IN  SetRefs(W2, [pollIntervalRef |-> FALSE, hasConnectedRef |-> FALSE,
                     currentWsUrlRef |-> NULL, isConnectingRef |-> FALSE,
                     reconnectAttemptsRef |-> 0])

\* The effect's body for a non-null sessionId (lines 234-238): the first fetch is
\* issued and the poll interval started.
RunEffect(W) == SetRefs(W, [pollIntervalRef |-> TRUE])

\* ------------------------------------------------------------------------
\* Steps of the hook
\* ------------------------------------------------------------------------
Commit(W) ==
    /\ refs' = W.refs
    /\ state' = W.state
    /\ sockets' = W.sockets
    /\ timers' = W.timers
    /\ nextSocket' = W.nextSocket
    /\ nextTimer' = W.nextTimer

RemoveSocket(W, s) == [W EXCEPT !.sockets = [i \in DOMAIN W.sockets \ {s} |-> W.sockets[i]]]

\* Observation of the backoff: the value the counter had when a socket opened, and
\* the first reconnect delay computed after that open (0 while none was).
NoteOpen == [opened |-> TRUE, resetFrom |-> refs.reconnectAttemptsRef, first |-> 0]

NoteDelay(W) ==
    IF afterOpen.opened /\ afterOpen.first = 0 /\ W.nextTimer > nextTimer
    THEN [afterOpen EXCEPT !.first = W.timers[nextTimer].delay]
    ELSE afterOpen

\* The page obtains its session id: the effect runs for the first time.
SetSession(sid) ==
    /\ mounted /\ sessionId = NULL
    /\ sessionId' = sid
    /\ requests' = [requests EXCEPT ![sid] = @ + 1]
    /\ Commit(RunEffect(World))
    /\ UNCHANGED <<mounted, received, afterOpen, notHook>>

\* The component unmounts: cleanup of the effect.
Unmount ==
    /\ mounted /\ sessionId # NULL
    /\ Commit(Cleanup(World))
    /\ mounted' = FALSE
    /\ UNCHANGED <<sessionId, requests, received, afterOpen, notHook>>

\* setInterval(fetchSessionStatus, 3000) fires.
PollTick ==
    /\ refs.pollIntervalRef
    /\ requests[sessionId] < MaxInFlight
    /\ requests' = [requests EXCEPT ![sessionId] = @ + 1]
    /\ UNCHANGED <<mounted, sessionId, refs, state, sockets, timers, nextSocket,
                   nextTimer, received, afterOpen, notHook>>

\* A status request of the effect for session sid resolves; lim bounds the number
\* of WebSocket objects created.
StatusResponse(sid, status, url, lim) ==
    /\ requests[sid] > 0
    /\ requests' = [requests EXCEPT ![sid] = @ - 1]
    /\ OnStatus(World, sid, status, url).nextSocket <= lim + 1
    /\ Commit(OnStatus(World, sid, status, url))
    /\ UNCHANGED <<mounted, sessionId, received, afterOpen, notHook>>

\* A status request rejects: the catch block only logs.
StatusFailure(sid) ==
    /\ requests[sid] > 0
    /\ requests' = [requests EXCEPT ![sid] = @ - 1]
    /\ UNCHANGED <<mounted, sessionId, refs, state, sockets, timers, nextSocket,
                   nextTimer, received, afterOpen, notHook>>

\* The connection of socket s is established.
SocketOpen(s) ==
    /\ s \in DOMAIN sockets /\ sockets[s].readyState = "CONNECTING"
    /\ Commit(OnOpen([World EXCEPT !.sockets[s].readyState = "OPEN"]))
    /\ afterOpen' = NoteOpen
    /\ UNCHANGED <<mounted, sessionId, requests, received, notHook>>

\* A frame arrives on the open socket s.
SocketMessage(s, frame) ==
    /\ s \in DOMAIN sockets /\ sockets[s].readyState = "OPEN"
    /\ Len(received) < MaxEvents
    /\ Commit(OnMessage(World, frame))
    /\ received' = IF JSONParse(frame) = ParseError THEN received
                   ELSE Append(received, JSONParse(frame))
    /\ UNCHANGED <<mounted, sessionId, requests, afterOpen, notHook>>

\* The connection of socket s fails or drops: error event, then close event.
SocketDrop(s) ==
    /\ s \in DOMAIN sockets /\ sockets[s].readyState \in {"CONNECTING", "OPEN"}
    /\ LET W == OnClose(OnError(RemoveSocket(World, s)), sockets[s].sid)
       IN  Commit(W) /\ afterOpen' = NoteDelay(W)
    /\ UNCHANGED <<mounted, sessionId, requests, received, notHook>>

\* The server closes the open socket s cleanly: close event.
SocketServerClose(s) ==
    /\ s \in DOMAIN sockets /\ sockets[s].readyState = "OPEN"
    /\ LET W == OnClose(RemoveSocket(World, s), sockets[s].sid)
       IN  Commit(W) /\ afterOpen' = NoteDelay(W)
    /\ UNCHANGED <<mounted, sessionId, requests, received, notHook>>

\* The close of socket s that the hook asked for completes.
SocketClosed(s) ==
    /\ s \in DOMAIN sockets /\ sockets[s].readyState = "CLOSING"
    /\ LET W0 == RemoveSocket(World, s)
           W  == OnClose(IF sockets[s].failed THEN OnError(W0) ELSE W0, sockets[s].sid)
       IN  Commit(W) /\ afterOpen' = NoteDelay(W)
    /\ UNCHANGED <<mounted, sessionId, requests, received, notHook>>

\* The reconnect timer t fires; lim bounds the number of WebSocket objects created.
TimerFire(t, lim) ==
    /\ t \in DOMAIN timers
    /\ OnReconnectTimer(ClearTimeout(World, t), timers[t].sid).nextSocket <= lim + 1
    /\ Commit(OnReconnectTimer(ClearTimeout(World, t), timers[t].sid))
    /\ UNCHANGED <<mounted, sessionId, requests, received, afterOpen, notHook>>

\* ------------------------------------------------------------------------
\* The session at the backend: status requests and the replaying stream
\* ------------------------------------------------------------------------
\* The lifecycle order of the status values
Rank(status) ==
    CASE status = "idle" -> 0
      [] status = "initializing" -> 1
      [] status = "running" -> 2
      [] OTHER -> 3

\* The session moves forward in its lifecycle.
ServerAdvance ==
    /\ sessionId # NULL /\ serverStatus = "initializing"
    /\ serverStatus' = "running"
    /\ UNCHANGED <<answers, published, cursor, discarded, hookVars, notSession>>

\* The session publishes an event that carries its status; the payload is the
\* event's position in the history.
PublishStatus ==
    /\ sessionId # NULL /\ Len(published) < MaxHistory
    /\ published' = Append(published,
                           Ev("status_update", serverStatus, <<Len(published) + 1>>))
    /\ UNCHANGED <<serverStatus, answers, cursor, discarded, hookVars, notSession>>

\* The backend serves one status request of the hook: the response carries the
\* status of that moment.
ServeStatus ==
    /\ sessionId # NULL /\ Len(answers) < requests[sessionId]
    /\ answers' = Append(answers, serverStatus)
    /\ UNCHANGED <<serverStatus, published, cursor, discarded, hookVars, notSession>>

\* The response k on its way reaches the hook: fetchSessionStatus goes on after
\* apiClient.getSession; responses of different requests may overtake each other.
StatusAnswer(k, url, lim) ==
    /\ sessionId # NULL /\ k \in 1..Len(answers)
    /\ requests' = [requests EXCEPT ![sessionId] = @ - 1]
    /\ answers' = SubSeq(answers, 1, k - 1) \o SubSeq(answers, k + 1, Len(answers))
    /\ OnStatus(World, sessionId, answers[k], url).nextSocket <= lim + 1
    /\ Commit(OnStatus(World, sessionId, answers[k], url))
    /\ UNCHANGED <<mounted, sessionId, received, afterOpen, serverStatus, published, cursor,
                   discarded, notSession>>

\* The backend sends the next event of the history on the open socket s: a new
\* connection is sent the history from its start, then the events as published.
ServerSend(s) ==
    /\ s \in DOMAIN sockets /\ sockets[s].readyState = "OPEN"
    /\ s \in DOMAIN cursor /\ cursor[s] < Len(published)
    /\ Commit(OnMessage(World, JsonFrame(published[cursor[s] + 1])))
    /\ received' = Append(received, published[cursor[s] + 1])
    /\ cursor' = [cursor EXCEPT ![s] = @ + 1]
    /\ UNCHANGED <<mounted, sessionId, requests, afterOpen, serverStatus, answers, published,
                   discarded, notSession>>

\* A frame that is not JSON arrives on the open socket s.
SocketGarbage(s) ==
    /\ s \in DOMAIN sockets /\ sockets[s].readyState = "OPEN"
    /\ Len(discarded) < MaxGarbage
    /\ Commit(OnMessage(World, GarbageFrame))
    /\ received' = IF JSONParse(GarbageFrame) = ParseError THEN received
                   ELSE Append(received, JSONParse(GarbageFrame))
    /\ discarded' = Append(discarded, Len(received))
    /\ UNCHANGED <<mounted, sessionId, requests, afterOpen, serverStatus, answers, published,
                   cursor, notSession>>

SessionInit ==
    /\ serverStatus = "initializing"
    /\ answers = << >>
    /\ published = << >>
    /\ cursor = [s \in 1..(MaxSessionSockets + 1) |-> 0]
    /\ discarded = << >>

HookInit ==
    /\ mounted = TRUE
    /\ sessionId = NULL
    /\ refs = InitRefs
    /\ state = InitState
    /\ sockets = << >>
    /\ timers = << >>
    /\ nextSocket = 1
    /\ nextTimer = 1
    /\ requests = [s \in Sessions |-> 0]
    /\ received = << >>
    /\ afterOpen = [opened |-> FALSE, resetFrom |-> 0, first |-> 0]

\* ------------------------------------------------------------------------
\* The chat page: the effect watching agentSession.events
\* ------------------------------------------------------------------------
\* Message contents are sequences of phrases; content.includes(phrase).
Includes(content, phrase) == \E i \in 1..Len(content) : content[i] = phrase

StreamingId == [kind |-> "streaming-response", t |-> 0]
MsgId(kind, now) == [kind |-> kind, t |-> now]
Message(id, role, content) == [id |-> id, role |-> role, content |-> content]

\* prev.findIndex(m => m.id === "streaming-response"), 0 when there is none
FindStreaming(msgs) ==
    IF \E i \in 1..Len(msgs) : msgs[i].id = StreamingId
    THEN CHOOSE i \in 1..Len(msgs) :
            /\ msgs[i].id = StreamingId
            /\ \A j \in 1..(i - 1) : msgs[j].id # StreamingId
    ELSE 0

IsPlaceholder(m) ==
    \/ Includes(m.content, "Building your website")
    \/ Includes(m.content, "Processing your request")

\* The setMessages updater of the claude_text and claude_event handlers
AppendStreamingText(msgs, text) ==
    LET existingIndex == FindStreaming(msgs)
    IN  IF existingIndex >= 1
        THEN [msgs EXCEPT ![existingIndex].content = @ \o text]
        ELSE Append(SelectSeq(msgs, LAMBDA m : ~IsPlaceholder(m)),
                    Message(StreamingId, "assistant", text))

\* The setMessages updater of turn_complete and agent_complete
FinalizeStreaming(msgs, now) ==
    [i \in 1..Len(msgs) |->
        IF msgs[i].id = StreamingId
        THEN [msgs[i] EXCEPT !.id = MsgId("response", now)]
        ELSE msgs[i]]

\* The loop over data.message.content of a claude_event
RECURSIVE AppendContentItems(_, _)
AppendContentItems(msgs, items) ==
    IF items = << >> THEN msgs
    ELSE AppendContentItems(
            IF Head(items).type = "text" /\ Head(items).text # << >>
            THEN AppendStreamingText(msgs, Head(items).text)
            ELSE msgs,
            Tail(items))

\* The dev_server_started test without the test of devUrl
ShouldSetDevUrlAlways(url, current) == url # << >>

\* url && !devUrl (line 151)
ShouldSetDevUrl(url, current) == url # << >> /\ current = NULL

Page == [ messages |-> messages, isLoading |-> isLoading, isThinking |-> isThinking,
          devUrl |-> devUrl, iframeRefreshTrigger |-> iframeRefreshTrigger ]

\* The body of the effect for latestEvent; devUrl is the value of the render.
HandleEvent(P, latestEvent, now) ==
    LET kind == latestEvent.event
        data == latestEvent.payload
    IN  CASE kind = "claude_text" ->
                IF data # << >>
                THEN [P EXCEPT !.messages = AppendStreamingText(@, data),
                               !.isThinking = TRUE]
                ELSE P
          [] kind \in {"claude_thinking", "claude_tool_use"} ->
                [P EXCEPT !.isThinking = TRUE]
          [] kind = "claude_event" ->
                [P EXCEPT !.messages = AppendContentItems(@, data)]
          [] kind = "dev_server_started" ->
                IF ShouldSetDevUrl(data, P.devUrl)
                THEN [P EXCEPT
                        !.devUrl = data[1],
                        !.messages =
                            IF \E i \in 1..Len(@) : Includes(@[i].content, "website is ready")
                            THEN @
                            ELSE Append(@, Message(MsgId("website-ready", now), "assistant",
                                                   <<"website is ready">>)),
                        !.iframeRefreshTrigger = @ + 1]
                ELSE P
          [] kind = "turn_complete" ->
                [P EXCEPT !.isThinking = FALSE,
                          !.messages = FinalizeStreaming(@, now),
                          !.iframeRefreshTrigger = IF P.devUrl # NULL THEN @ + 1 ELSE @]
          [] kind = "ready_for_input" ->
                [P EXCEPT !.isThinking = FALSE,
                          !.iframeRefreshTrigger = IF P.devUrl # NULL THEN @ + 1 ELSE @]
          [] kind = "agent_complete" ->
                [P EXCEPT !.messages = FinalizeStreaming(@, now),
                          !.isLoading = FALSE, !.isThinking = FALSE]
          [] kind = "agent_error" ->
                [P EXCEPT !.messages =
                              Append(@, Message(MsgId("error", now), "assistant",
                                                <<"I encountered an error",
                                                  IF data # << >> THEN data[1]
                                                  ELSE "Unknown error">>)),
                          !.isLoading = FALSE, !.isThinking = FALSE]
          [] OTHER -> P

\* <WebsitePreview devUrl={devUrl} refreshTrigger={iframeRefreshTrigger} />, rendered
\* when devUrl is set: no pages are given, so the preview takes its default, [].
WebsitePreviewProps ==
    [devUrl |-> devUrl, refreshTrigger |-> iframeRefreshTrigger, pages |-> << >>]

\* useEffect(..., [agentSession.events, devUrl]): the page renders and the effect
\* runs when a dependency differs from the one of its last run; it looks at the
\* last event of the list only.
EventsEffect ==
    /\ mounted
    /\ effectDeps # [events |-> state.events, devUrl |-> devUrl]
    /\ effectDeps' = [events |-> state.events, devUrl |-> devUrl]
    /\ IF state.events = << >>
       THEN UNCHANGED <<messages, isLoading, isThinking, devUrl, iframeRefreshTrigger,
                        processed>>
       ELSE LET latestEvent == state.events[Len(state.events)]
                P == HandleEvent(Page, latestEvent, Len(processed) + 1)
            IN  /\ processed' = Append(processed, [index |-> Len(state.events),
                                                    event |-> latestEvent.event])
                /\ messages' = P.messages
                /\ isLoading' = P.isLoading
                /\ isThinking' = P.isThinking
                /\ devUrl' = P.devUrl
                /\ iframeRefreshTrigger' = P.iframeRefreshTrigger
    /\ UNCHANGED <<sendVars, hookVars, serverVars, previewVars, sessionVars>>

\* ------------------------------------------------------------------------
\* The chat page: handleSendMessage
\* ------------------------------------------------------------------------
\* Message texts are sequences of characters.
Contents == { <<" ">>, <<" ", "g", "o", " ">> }

\* Texts a user may type, one of them holding the words of the placeholder
ChatContents == { <<"h", "i">>, <<"Building your website", "?">> }

\* String.prototype.trim
RECURSIVE TrimStart(_)
TrimStart(c) == IF c # << >> /\ Head(c) = " " THEN TrimStart(Tail(c)) ELSE c

RECURSIVE TrimEnd(_)
TrimEnd(c) ==
    IF c # << >> /\ c[Len(c)] = " " THEN TrimEnd(SubSeq(c, 1, Len(c) - 1)) ELSE c

Trim(c) == TrimEnd(TrimStart(c))

\* sendPrompt without the readyState test: reports success whatever happened
sendPromptAlwaysTrue(W, throws) ==
    [ sent   |-> W.refs.wsRef # 0 /\ IsOpen(W, W.refs.wsRef) /\ ~throws,
      result |-> TRUE ]

\* sendPrompt: result is the value returned, sent tells whether ws.send put the
\* frame on the socket; throws is ws.send raising.
sendPrompt(W, throws) ==
    IF W.refs.wsRef = 0 \/ ~IsOpen(W, W.refs.wsRef)
    THEN [sent |-> FALSE, result |-> FALSE]
    ELSE [sent |-> ~throws, result |-> ~throws]

Turn(content, pc, outcomes) ==
    [ content    |-> content,
      sid        |-> sessionId,
      pc         |-> pc,
      session_id |-> sessionId,
      readyState |-> IF refs.wsRef = 0 THEN NULL ELSE ReadyState(World, refs.wsRef),
      outcomes   |-> outcomes ]

UserMessage(k, text) == Message(MsgId("", 2 * k), "user", text)
ErrorMessage(k, text) == Message(MsgId("", 2 * k + 1), "assistant", <<"Error: ", text>>)
BuildingMessage(k) == Message(MsgId("", 2 * k + 1), "assistant", <<"Building your website">>)

\* handleSendMessage(content) up to its first await: the whole call on the
\* WebSocket path, the issue of the chat request on the API path.
SendMessage(content, throws) ==
    /\ mounted /\ Len(turns) < MaxTurns
    /\ LET text == Trim(content)
           k    == Len(turns) + 1
       IN  IF text = << >>
           THEN /\ turns' = Append(turns, Turn(content, "returned", << >>))
                /\ UNCHANGED <<messages, isLoading, isThinking, wsOut>>
           ELSE IF sessionId # NULL /\ state.isConnected
           THEN LET r == sendPrompt(World, throws)
                IN  /\ wsOut' = IF r.sent
                                THEN Append(wsOut, [socket |-> refs.wsRef, message |-> text])
                                ELSE wsOut
                    /\ IF r.result
                       THEN /\ messages' = Append(messages, UserMessage(k, text))
                            /\ turns' = Append(turns,
                                   Turn(content, "done",
                                        IF r.sent THEN <<"prompt">> ELSE << >>))
                            /\ UNCHANGED isThinking
                       ELSE /\ messages' = messages \o
                                   << UserMessage(k, text),
                                      ErrorMessage(k, "Failed to send prompt via WebSocket") >>
                            /\ turns' = Append(turns, Turn(content, "done", <<"error">>))
                            /\ isThinking' = FALSE
                    /\ isLoading' = FALSE
           ELSE /\ messages' = Append(messages, UserMessage(k, text))
                /\ isLoading' = TRUE
                /\ turns' = Append(turns, Turn(content, "awaiting", << >>))
                /\ UNCHANGED <<isThinking, wsOut>>
    /\ UNCHANGED <<devUrl, iframeRefreshTrigger, effectDeps, processed, hookVars,
                   serverVars, previewVars, sessionVars>>

\* apiClient.chat of turn k resolves with the session id sid.
ChatResponse(k, sid) ==
    /\ mounted /\ k \in 1..Len(turns) /\ turns[k].pc = "awaiting"
    /\ turns' = [turns EXCEPT ![k].pc = "done", ![k].outcomes = Append(@, "request")]
    /\ messages' = Append(messages, BuildingMessage(k))
    /\ isLoading' = FALSE
    /\ IF turns[k].sid = NULL /\ sessionId = NULL
       THEN /\ sessionId' = sid
            /\ requests' = [requests EXCEPT ![sid] = @ + 1]
            /\ Commit(RunEffect(World))
       ELSE UNCHANGED <<sessionId, requests, refs, state, sockets, timers, nextSocket,
                        nextTimer>>
    /\ UNCHANGED <<mounted, received, afterOpen, isThinking, devUrl,
                   iframeRefreshTrigger, effectDeps, processed, wsOut, serverVars,
                   previewVars, sessionVars>>

\* apiClient.chat of turn k rejects.
ChatFailure(k) ==
    /\ mounted /\ k \in 1..Len(turns) /\ turns[k].pc = "awaiting"
    /\ turns' = [turns EXCEPT ![k].pc = "done", ![k].outcomes = Append(@, "error")]
    /\ messages' = Append(messages, ErrorMessage(k, "HTTP error!"))
    /\ isThinking' = FALSE
    /\ isLoading' = FALSE
    /\ UNCHANGED <<devUrl, iframeRefreshTrigger, effectDeps, processed, wsOut, hookVars,
                   serverVars, previewVars, sessionVars>>

PageInit ==
    /\ messages = << >>
    /\ isLoading = FALSE
    /\ isThinking = FALSE
    /\ devUrl = NULL
    /\ iframeRefreshTrigger = 0
    /\ effectDeps = [events |-> << >>, devUrl |-> NULL]
    /\ processed = << >>
    /\ turns = << >>
    /\ wsOut = << >>

\* ------------------------------------------------------------------------
\* The backend: session manager and event bus
\* ------------------------------------------------------------------------
NumCallers == 3
NumSubscribers == 2
MaxPublished == 3
NewSessionId == "abc123"
EventKinds == {"turn_started", "content_delta"}

\* createOrAttach without the existence check
createOrAttachUnchecked(reg, id) ==
    [registry |-> [i \in DOMAIN reg \cup {id} |-> [state |-> "provisioning"]],
     spawn |-> TRUE, sessionId |-> id]

\* createOrAttach: an atomic check-and-set on the session's existence.
createOrAttach(reg, id) ==
    IF id \in DOMAIN reg
    THEN [registry |-> reg, spawn |-> FALSE, sessionId |-> id]
    ELSE [registry |-> reg @@ (id :> [state |-> "provisioning"]),
          spawn |-> TRUE, sessionId |-> id]

\* subscribe without the replay
subscribeLiveOnly(log) ==
    [attached |-> TRUE, attachedAt |-> Len(log), queue |-> << >>, got |-> << >>]

\* subscribe: the full replay of the prior events, then the live ones.
subscribe(log) ==
    [attached |-> TRUE, attachedAt |-> Len(log), queue |-> log, got |-> << >>]

\* publish: append with the next sequence number, fan out to the subscribers.
publish(log, kind) == Append(log, [sequence |-> Len(log) + 1, kind |-> kind])

\* A caller sends POST /api/chat with the new session id.
CreateRequest(c) ==
    /\ callers[c].pc = "idle"
    /\ callers' = [callers EXCEPT ![c].pc = "pending"]
    /\ UNCHANGED <<registry, spawned, busLog, subs, sandboxVars, hookVars, pageVars,
                   previewVars, sessionVars>>

\* The session manager serves the request of caller c.
CreateOrAttach(c) ==
    /\ callers[c].pc = "pending"
    /\ LET r == createOrAttach(registry, NewSessionId)
       IN  /\ registry' = r.registry
           /\ spawned' = IF r.spawn THEN spawned + 1 ELSE spawned
           /\ callers' = [callers EXCEPT ![c] =
                 [pc |-> "done", result |-> r.sessionId,
                  racing |-> Cardinality({d \in DOMAIN callers : callers[d].pc = "pending"})]]
    /\ UNCHANGED <<busLog, subs, sandboxVars, hookVars, pageVars, previewVars, sessionVars>>

\* The session's worker publishes an event.
Publish(kind) ==
    /\ NewSessionId \in DOMAIN registry
    /\ Len(busLog) < MaxPublished
    /\ busLog' = publish(busLog, kind)
    /\ subs' = [s \in DOMAIN subs |->
                  IF subs[s].attached
                  THEN [subs[s] EXCEPT !.queue = Append(@, busLog'[Len(busLog')])]
                  ELSE subs[s]]
    /\ UNCHANGED <<registry, spawned, callers, sandboxVars, hookVars, pageVars,
                   previewVars, sessionVars>>

\* Subscriber s attaches to the session's stream.
Subscribe(s) ==
    /\ NewSessionId \in DOMAIN registry
    /\ ~subs[s].attached
    /\ subs' = [subs EXCEPT ![s] = subscribe(busLog)]
    /\ UNCHANGED <<registry, spawned, callers, busLog, sandboxVars, hookVars, pageVars,
                   previewVars, sessionVars>>

\* The next queued event reaches subscriber s.
Deliver(s) ==
    /\ subs[s].attached /\ subs[s].queue # << >>
    /\ subs' = [subs EXCEPT ![s].got = Append(@, Head(subs[s].queue)),
                            ![s].queue = Tail(@)]
    /\ UNCHANGED <<registry, spawned, callers, busLog, sandboxVars, hookVars, pageVars,
                   previewVars, sessionVars>>

ServerInit ==
    /\ registry = << >>
    /\ spawned = 0
    /\ callers = [c \in 1..NumCallers |-> [pc |-> "idle", result |-> NULL, racing |-> 0]]
    /\ busLog = << >>
    /\ subs = [s \in 1..NumSubscribers |->
                 [attached |-> FALSE, attachedAt |-> 0, queue |-> << >>, got |-> << >>]]

\* ------------------------------------------------------------------------
\* The sandbox: readiness probe of the preview process
\* ------------------------------------------------------------------------
MaxAttempts == 30
ProbeIntervalMs == 1000
HttpStatuses == {200, 403, 404, 500}

\* urlopen("http://localhost:3000/"): a response for a 2xx status, HTTPError for an
\* error status, URLError when the connection fails, another exception when the
\* peer answers with something that is not HTTP.
urlopen(p, garbled) ==
    IF ~p.listening THEN [kind |-> "URLError", code |-> 0]
    ELSE IF garbled THEN [kind |-> "Exception", code |-> 0]
    ELSE IF p.status < 300 THEN [kind |-> "response", code |-> p.status]
    ELSE [kind |-> "HTTPError", code |-> p.status]

\* The health check that passes on a 200 only
health_check_strict(r) == r.kind = "response" /\ r.code = 200

\* The health check: any answer of the server passes.
health_check(r) ==
    CASE r.kind = "response"  -> TRUE
      [] r.kind = "HTTPError" -> TRUE
      [] r.kind = "URLError"  -> FALSE
      [] OTHER                -> FALSE

\* The attempt budget that is never used up
ExhaustedNever(n) == FALSE

\* The attempt budget is used up.
Exhausted(n) == n >= MaxAttempts

\* The preview process starts listening and answers with the given status.
ProcessStart(status) ==
    /\ ~port.listening
    /\ port' = [listening |-> TRUE, status |-> status]
    /\ UNCHANGED <<probe, notProbe>>

\* The preview process exits.
ProcessExit ==
    /\ port.listening
    /\ port' = [listening |-> FALSE, status |-> 0]
    /\ UNCHANGED <<probe, notProbe>>

\* awaitReady starts probing.
AwaitReady ==
    /\ probe.pc = "idle"
    /\ probe' = [probe EXCEPT !.pc = "probing"]
    /\ UNCHANGED <<port, notProbe>>

\* One attempt of the probe loop: the health check, then the wait of one interval
\* when it failed.
ProbeAttempt(garbled) ==
    /\ probe.pc = "probing"
    /\ LET r     == urlopen(port, garbled)
           ready == health_check(r)
           n     == probe.attempt + 1
       IN  probe' = [ pc      |-> IF ready THEN "ready"
                                  ELSE IF Exhausted(n) THEN "timedOut" ELSE "probing",
                      attempt |-> n,
                      elapsed |-> IF ready THEN probe.elapsed
                                  ELSE probe.elapsed + ProbeIntervalMs,
                      heard   |-> probe.heard \/ port.listening,
                      last    |-> r ]
    /\ UNCHANGED <<port, notProbe>>

ProbeInit ==
    /\ port = [listening |-> FALSE, status |-> 0]
    /\ probe = [pc |-> "idle", attempt |-> 0, elapsed |-> 0, heard |-> FALSE,
                last |-> [kind |-> "none", code |-> 0]]

\* ------------------------------------------------------------------------
\* The sandbox: permissions of the workspace tree
\* ------------------------------------------------------------------------
\* Permission bits are numbers below 2^9.
ModeBits == 512
ReadAll == 292
ExecAll == 73
CreateModes == {0, 384, 420, 448, 416}

\* Bitwise or that is an addition
BitAdd(a, b) == (a + b) % ModeBits

RECURSIVE BitOr(_, _)
BitOr(a, b) ==
    IF a = 0 THEN b
    ELSE IF b = 0 THEN a
    ELSE (IF a % 2 = 1 \/ b % 2 = 1 THEN 1 ELSE 0) + 2 * BitOr(a \div 2, b \div 2)

RECURSIVE BitAnd(_, _)
BitAnd(a, b) ==
    IF a = 0 \/ b = 0 THEN 0
    ELSE (IF a % 2 = 1 /\ b % 2 = 1 THEN 1 ELSE 0) + 2 * BitAnd(a \div 2, b \div 2)

\* chmod a+rX on one entry: read for all; execute for all when the entry is a
\* directory or has an execute bit for someone.
ChmodARX(dir, mode) ==
    LET withX == IF dir \/ BitAnd(mode, ExecAll) # 0 THEN BitOr(mode, ExecAll) ELSE mode
    IN  BitOr(withX, ReadAll)

\* chmod -R a+rX workspace
ChmodR(t) == [n \in DOMAIN t |-> [t[n] EXCEPT !.mode = ChmodARX(t[n].dir, t[n].mode)]]

\* A file or a directory is created in the workspace.
CreateEntry(n, dir, mode) ==
    /\ n \notin DOMAIN tree
    /\ tree' = tree @@ (n :> [dir |-> dir, mode |-> mode, orig |-> mode])
    /\ fixRuns' = 0
    /\ UNCHANGED notFs

\* os.system("chmod -R a+rX workspace")
PermissionFix ==
    /\ fixRuns < 2
    /\ tree' = ChmodR(tree)
    /\ fixRuns' = fixRuns + 1
    /\ UNCHANGED notFs

FsInit ==
    /\ tree = << >>
    /\ fixRuns = 0

\* ------------------------------------------------------------------------
\* The sandbox: scan_workspace_pages
\* ------------------------------------------------------------------------
\* Paths and texts are sequences of character codes, compared as Python compares
\* strings.
MaxSections == 20
Slash == 47
Dot == 46
HtmlSuffix == <<46, 104, 116, 109, 108>>                 \* ".html"
IndexPath == <<105, 110, 100, 101, 120>> \o HtmlSuffix   \* "index.html"
UpperPath == <<90>> \o HtmlSuffix                        \* "Z.html"
SubPath == <<115, 47, 99>> \o HtmlSuffix                 \* "s/c.html"
HiddenPath == <<46, 104>> \o HtmlSuffix                  \* ".h.html"
CssPath == <<97, 46, 99, 115, 115>>                      \* "a.css"
Paths == {IndexPath, UpperPath, SubPath, HiddenPath, CssPath}

\* File contents: whether open/read succeeds, the <title> element, the number of
\* elements carrying an id.
FileKinds ==
    { [readable |-> TRUE,  title |-> [found |-> TRUE,  text |-> <<32, 72, 105, 32>>], ids |-> 2],
      [readable |-> TRUE,  title |-> [found |-> FALSE, text |-> << >>],             ids |-> 21],
      [readable |-> FALSE, title |-> [found |-> FALSE, text |-> << >>],             ids |-> 0] }

EndsWith(p, suffix) ==
    Len(p) >= Len(suffix) /\ SubSeq(p, Len(p) - Len(suffix) + 1, Len(p)) = suffix

TopLevel(p) == \A i \in 1..Len(p) : p[i] # Slash

\* A path component beginning with a dot: glob does not match it.
Hidden(p) ==
    \/ p # << >> /\ p[1] = Dot
    \/ \E i \in 1..(Len(p) - 1) : p[i] = Slash /\ p[i + 1] = Dot

\* glob.glob(f"{workspace}/*.html")
GlobTop(p) == TopLevel(p) /\ EndsWith(p, HtmlSuffix) /\ ~Hidden(p)

\* glob.glob(f"{workspace}/**/*.html", recursive=True): ** matches zero or more
\* directories.
GlobRecursive(p) == EndsWith(p, HtmlSuffix) /\ ~Hidden(p)

\* The orders a directory listing may return the entries of a set in.
Listings(S) ==
    {o \in [1..Cardinality(S) -> S] : \A i, j \in 1..Cardinality(S) : i # j => o[i] # o[j]}

\* html_files (line 76)
HtmlFiles(order) == SelectSeq(order, GlobTop) \o SelectSeq(order, GlobRecursive)

\* str.strip() of spaces
RECURSIVE Strip(_)
Strip(t) ==
    IF t # << >> /\ Head(t) = 32 THEN Strip(Tail(t))
    ELSE IF t # << >> /\ t[Len(t)] = 32 THEN Strip(SubSeq(t, 1, Len(t) - 1))
    ELSE t

\* The section cap that is never reached
SectionsFullNever(n) == FALSE

\* len(sections) >= 20 (line 113)
SectionsFull(n) == n >= MaxSections

\* The loop over re.finditer(id_pattern, content) on a file with n matches, from
\* match i
RECURSIVE ExtractSections(_, _, _)
ExtractSections(n, i, sections) ==
    IF i > n THEN sections
    ELSE LET next == Append(sections, [id |-> i, name |-> i, element |-> "div"])
         IN  IF SectionsFull(Len(next)) THEN next ELSE ExtractSections(n, i + 1, next)

\* The body of the try for one file (lines 83-125)
PageOf(path, file) ==
    [ path     |-> path,
      title    |-> IF file.title.found THEN Strip(file.title.text) ELSE path,
      url      |-> IF path = IndexPath THEN <<Slash>> ELSE <<Slash>> \o path,
      sections |-> ExtractSections(file.ids, 1, << >>) ]

\* An error of one file that ends the scan
OnFileErrorRaise(acc) == [acc EXCEPT !.raised = TRUE]

\* except Exception (lines 129-130): the file is logged and left out
OnFileError(acc) == acc

\* for html_file in html_files (lines 81-130)
RECURSIVE ScanLoop(_, _, _)
ScanLoop(fs, list, acc) ==
    IF list = << >> \/ acc.raised THEN acc
    ELSE ScanLoop(fs, Tail(list),
                  IF fs[Head(list)].readable
                  THEN [acc EXCEPT !.pages = Append(@, PageOf(Head(list), fs[Head(list)]))]
                  ELSE OnFileError(acc))

\* Python's string comparison
RECURSIVE LexLess(_, _)
LexLess(a, b) ==
    IF b = << >> THEN FALSE
    ELSE IF a = << >> THEN TRUE
    ELSE IF Head(a) # Head(b) THEN Head(a) < Head(b)
    ELSE LexLess(Tail(a), Tail(b))

\* The first component of the sort key with index.html like any other path
IsNotIndexNever(path) == FALSE

\* p['path'] != 'index.html'
IsNotIndex(path) == path # IndexPath

\* key(p) < key(q) for key = (p['path'] != 'index.html', p['path'])
KeyLess(p, q) ==
    \/ ~IsNotIndex(p.path) /\ IsNotIndex(q.path)
    \/ IsNotIndex(p.path) = IsNotIndex(q.path) /\ LexLess(p.path, q.path)

\* Insertion behind the entries whose key is not greater: the sort is stable.
InsertPage(sorted, x) ==
    LET k == Cardinality({i \in 1..Len(sorted) : ~KeyLess(x, sorted[i])})
    IN  SubSeq(sorted, 1, k) \o <<x>> \o SubSeq(sorted, k + 1, Len(sorted))

\* The pages left in the order of the listing
SortPagesNot(pages) == pages

\* pages.sort(key=...) (line 132)
RECURSIVE SortPages(_)
SortPages(pages) ==
    IF pages = << >> THEN << >>
    ELSE InsertPage(SortPages(SubSeq(pages, 1, Len(pages) - 1)), pages[Len(pages)])

RECURSIVE SumSections(_)
SumSections(pages) ==
    IF pages = << >> THEN 0 ELSE Len(Head(pages).sections) + SumSections(Tail(pages))

\* scan_workspace_pages on the files fs listed in the given order
scan_workspace_pages(fs, order) ==
    LET acc   == ScanLoop(fs, HtmlFiles(order), [pages |-> << >>, raised |-> FALSE])
        pages == SortPages(acc.pages)
    IN  IF acc.raised
        THEN [raised |-> TRUE, pages |-> << >>, total_pages |-> 0, total_sections |-> 0]
        ELSE [raised |-> FALSE, pages |-> pages, total_pages |-> Len(pages),
              total_sections |-> SumSections(pages)]

\* A file is written into the workspace.
WriteFile(path, kind) ==
    /\ path \notin DOMAIN files
    /\ Cardinality(DOMAIN files) < MaxFiles
    /\ files' = files @@ (path :> kind)
    /\ scans' = << >>
    /\ firstOrder' = << >>
    /\ UNCHANGED notScan

\* structure = scan_workspace_pages(session_id, workspace), the directory listing
\* returning the entries in the given order.
Scan(order) ==
    /\ Len(scans) < MaxScans
    /\ order \in Listings(DOMAIN files)
    /\ scans' = Append(scans, [result    |-> scan_workspace_pages(files, order),
                               reordered |-> scans # << >> /\ order # firstOrder])
    /\ firstOrder' = IF scans = << >> THEN order ELSE firstOrder
    /\ UNCHANGED <<files, notScan>>

ScanInit ==
    /\ files = << >>
    /\ firstOrder = << >>
    /\ scans = << >>

\* ------------------------------------------------------------------------
\* The sandbox: the display name of a section (scan_workspace_pages, lines 94-111)
\* ------------------------------------------------------------------------
NameLimit == 50
\* The ids "top" and "iii...i" of 60 characters
SectionIds == { <<116, 111, 112>>, [i \in 1..60 |-> 105] }

\* The characters \s matches and strip() removes
IsSpace(c) == c \in {9, 10, 13, 32}

Run(c, n) == [i \in 1..n |-> c]

\* The inner content of an element: n times "x" and m times "y" with white space
\* of gap characters around and between them, inside <b>...</b> when tagged.
InnerContent(n, m, gap, tagged) ==
    Run(32, gap)
    \o (IF tagged THEN <<60, 98, 62>> ELSE << >>)
    \o Run(120, n) \o Run(10, gap) \o Run(32, gap) \o Run(121, m)
    \o (IF tagged THEN <<60, 47, 98, 62>> ELSE << >>)
    \o Run(9, gap)

\* re.sub(r'<[^>]+>', '', s): "<", one or more characters other than ">", ">"
RECURSIVE StripTags(_)
StripTags(t) ==
    IF t = << >> THEN << >>
    ELSE IF Head(t) = 60 /\ \E j \in 3..Len(t) : t[j] = 62 /\ \A k \in 2..(j - 1) : t[k] # 62
         THEN LET j == CHOOSE j \in 3..Len(t) : t[j] = 62 /\ \A k \in 2..(j - 1) : t[k] # 62
              IN  StripTags(SubSeq(t, j + 1, Len(t)))
         ELSE <<Head(t)>> \o StripTags(Tail(t))

\* str.strip()
RECURSIVE StripSpace(_)
StripSpace(t) ==
    IF t # << >> /\ IsSpace(Head(t)) THEN StripSpace(Tail(t))
    ELSE IF t # << >> /\ IsSpace(t[Len(t)]) THEN StripSpace(SubSeq(t, 1, Len(t) - 1))
    ELSE t

\* re.sub(r'\s+', ' ', s)
RECURSIVE CollapseSpace(_)
CollapseSpace(t) ==
    IF t = << >> THEN << >>
    ELSE IF IsSpace(Head(t))
         THEN IF Len(t) >= 2 /\ IsSpace(t[2])
              THEN CollapseSpace(Tail(t))
              ELSE <<32>> \o CollapseSpace(Tail(t))
         ELSE <<Head(t)>> \o CollapseSpace(Tail(t))

\* The text kept whole whatever its length
TruncateNot(t) == t

\* if len(text_content) > 50: text_content = text_content[:50] + '...'
Truncate(t) == IF Len(t) > NameLimit THEN SubSeq(t, 1, NameLimit) \o <<46, 46, 46>> ELSE t

\* section_name (lines 99-105)
section_name(inner, id) ==
    LET text_content == Truncate(CollapseSpace(StripSpace(StripTags(inner))))
    IN  IF text_content # << >> THEN text_content ELSE id

\* One match of id_pattern: its display name is derived.
NameSection(n, m, gap, tagged, id) ==
    /\ section' = [ n |-> n, m |-> m, gap |-> gap, tagged |-> tagged,
                    inner |-> InnerContent(n, m, gap, tagged), id |-> id,
                    name |-> section_name(InnerContent(n, m, gap, tagged), id) ]
    /\ UNCHANGED notName

NameInit ==
    section = [ n |-> 0, m |-> 0, gap |-> 0, tagged |-> FALSE, inner |-> << >>,
                id |-> <<116, 111, 112>>, name |-> <<116, 111, 112>> ]

\* ------------------------------------------------------------------------
\* The preview and its Page Selector (WebsitePreview, PageSelector)
\* ------------------------------------------------------------------------
\* URLs and paths are sequences of parts.
DevUrls == { <<"https://preview-1">>, <<"https://preview-1", "/">> }

PageInfo(path, title, url, sections) ==
    [path |-> path, title |-> title, url |-> url, sections |-> sections]

\* The page lists handed to the preview
PageLists ==
    { << >>,
      << PageInfo("index.html", "Home", "/", << >>) >>,
      << PageInfo("index.html", "Home", "/", << >>),
         PageInfo("about.html", "About", "/about.html", <<"team", "contact">>) >>,
      << PageInfo("index.html", "Home", "/", <<"hero">>),
         PageInfo("about.html", "About", "/about.html", << >>) >> }

\* {pages.length > 1 && <PageSelector .../>}, and PageSelector's
\* if (pages.length === 0) return null
SelectorShown == Len(preview.pages) > 1 /\ Len(preview.pages) # 0

\* devUrl.replace(/\/$/, "")
StripTrailingSlash(url) ==
    IF url # << >> /\ url[Len(url)] = "/" THEN SubSeq(url, 1, Len(url) - 1) ELSE url

\* const currentUrl = devUrl.replace(/\/$/, "") + "/" + currentPath: the src of the iframe
currentUrl == StripTrailingSlash(preview.devUrl) \o <<"/">> \o currentPath

\* handleNavigate: setCurrentPath(path); the hash is not used
handleNavigate(path, hash) == path

\* The expand control of a page entry: {page.sections.length > 0 && <ChevronDown/>}
HasExpandControl(page) == Len(page.sections) > 0

\* The section list shown for the expanded page whatever its sections
SectionListShownAnyLength(page) == expandedPage = page.path

\* {expandedPage === page.path && page.sections.length > 0 && ...}
SectionListShown(page) == expandedPage = page.path /\ Len(page.sections) > 0

\* DropdownMenu variant: a page with sections is a DropdownMenuSub, one without
\* is a DropdownMenuItem
IsSubmenu(page) == ~(Len(page.sections) = 0)

\* handlePageSelect: const fullUrl = devUrl + url
handlePageSelect(url) == preview.devUrl \o <<url>>

\* handleSectionSelect: const fullUrl = `${devUrl}${pageUrl}#${sectionId}`
handleSectionSelect(pageUrl, sectionId) == preview.devUrl \o <<pageUrl, "#", sectionId>>

\* An entry clicked, with the arguments its handler gave to onNavigate
Click(kind, variant, page, sec, path, hash) ==
    [kind |-> kind, variant |-> variant, page |-> page, section |-> sec,
     path |-> path, hash |-> hash]

\* The parent renders the preview with new props.
RenderPreview(url, pages) ==
    /\ preview' = [devUrl |-> url, pages |-> pages]
    /\ UNCHANGED <<currentPath, refreshKey, isOpen, expandedPage, selectedPage, lastClick,
                   notPreview>>

\* The trigger button: setIsOpen(!isOpen)
ToggleOpen ==
    /\ SelectorShown
    /\ isOpen' = ~isOpen
    /\ UNCHANGED <<preview, currentPath, refreshKey, expandedPage, selectedPage, lastClick,
                   notPreview>>

\* handleRefresh
HandleRefresh ==
    /\ refreshKey < MaxNavs
    /\ refreshKey' = refreshKey + 1
    /\ UNCHANGED <<preview, currentPath, isOpen, expandedPage, selectedPage, lastClick,
                   notPreview>>

\* The button of page i of the dropdown is clicked.
ClickPage(i) ==
    /\ SelectorShown /\ isOpen /\ refreshKey < MaxNavs
    /\ i \in 1..Len(preview.pages)
    /\ LET page == preview.pages[i]
       IN  /\ currentPath' = handleNavigate(<<page.path>>, << >>)
           /\ refreshKey' = refreshKey + 1
           /\ IF Len(page.sections) = 0
              THEN isOpen' = FALSE /\ UNCHANGED expandedPage
              ELSE /\ expandedPage' = IF expandedPage = page.path THEN NULL ELSE page.path
                   /\ UNCHANGED isOpen
           /\ lastClick' = Click("page", "dropdown", page, NULL, <<page.path>>, << >>)
    /\ UNCHANGED <<preview, selectedPage, notPreview>>

\* The button of section j of the expanded page i is clicked.
ClickSection(i, j) ==
    /\ SelectorShown /\ isOpen /\ refreshKey < MaxNavs
    /\ i \in 1..Len(preview.pages)
    /\ SectionListShown(preview.pages[i])
    /\ j \in 1..Len(preview.pages[i].sections)
    /\ LET page == preview.pages[i]
           sec == page.sections[j]
       IN  /\ currentPath' = handleNavigate(<<page.path>>, <<sec>>)
           /\ refreshKey' = refreshKey + 1
           /\ isOpen' = FALSE
           /\ lastClick' = Click("section", "dropdown", page, sec, <<page.path>>, <<sec>>)
    /\ UNCHANGED <<preview, expandedPage, selectedPage, notPreview>>

\* DropdownMenu variant: the item of page i, or "View full page" of its submenu;
\* the URL is handed to onNavigate.
MenuPageSelect(i) ==
    /\ Len(preview.pages) # 0
    /\ i \in 1..Len(preview.pages)
    /\ LET page == preview.pages[i]
       IN  /\ selectedPage' = page.title
           /\ lastClick' = Click("page", "menu", page, NULL, handlePageSelect(page.url), << >>)
    /\ UNCHANGED <<preview, currentPath, refreshKey, isOpen, expandedPage, notPreview>>

\* DropdownMenu variant: the item of section j in the submenu of page i.
MenuSectionSelect(i, j) ==
    /\ Len(preview.pages) # 0
    /\ i \in 1..Len(preview.pages)
    /\ IsSubmenu(preview.pages[i])
    /\ j \in 1..Len(preview.pages[i].sections)
    /\ LET page == preview.pages[i]
           sec == page.sections[j]
       IN  lastClick' = Click("section", "menu", page, sec,
                              handleSectionSelect(page.url, sec), << >>)
    /\ UNCHANGED <<preview, currentPath, refreshKey, isOpen, expandedPage, selectedPage,
                   notPreview>>

PreviewInit ==
    /\ preview = [devUrl |-> <<"https://preview-1">>, pages |-> << >>]
    /\ currentPath = <<"index.html">>
    /\ refreshKey = 0
    /\ isOpen = FALSE
    /\ expandedPage = NULL
    /\ selectedPage = NULL
    /\ lastClick = Click("none", "none", PageInfo(NULL, NULL, NULL, << >>), NULL, << >>, << >>)

Init ==
    /\ HookInit /\ PageInit /\ ServerInit /\ ProbeInit /\ FsInit /\ ScanInit /\ NameInit
    /\ PreviewInit /\ SessionInit

\* The connection life cycle under status responses that may change the URL.
Next ==
    \/ SetSession("s1")
    \/ Unmount
    \/ PollTick
    \/ \E url \in GoodUrls \cup {NULL} : StatusResponse("s1", "running", url, MaxSockets)
    \/ StatusFailure("s1")
    \/ \E s \in 1..MaxSockets : SocketOpen(s)
    \/ \E s \in 1..MaxSockets : SocketDrop(s)
    \/ \E s \in 1..MaxSockets : SocketServerClose(s)
    \/ \E s \in 1..MaxSockets : SocketClosed(s)
    \/ \E t \in 1..MaxSockets : TimerFire(t, MaxSockets)

Spec == Init /\ [][Next]_vars

\* Repeated disconnects of the connection to one URL, which may be malformed.
ReconnectNext ==
    \/ SetSession("s1")
    \/ PollTick
    \/ \E url \in {"wss://a/ws", BadUrl, NULL} :
          StatusResponse("s1", "running", url, MaxBackoffSockets)
    \/ \E s \in 1..MaxBackoffSockets : SocketOpen(s)
    \/ \E s \in 1..MaxBackoffSockets : SocketDrop(s)
    \/ \E s \in 1..MaxBackoffSockets : SocketClosed(s)
    \/ \E t \in 1..MaxBackoffSockets : TimerFire(t, MaxBackoffSockets)

ReconnectSpec == Init /\ [][ReconnectNext]_vars

\* The stream of one connection and the status responses around it.
MsgNext ==
    \/ SetSession("s1")
    \/ PollTick
    \/ \E st \in Statuses, url \in {"wss://a/ws", NULL} :
          StatusResponse("s1", st, url, MaxMsgSockets)
    \/ \E s \in 1..MaxMsgSockets : SocketOpen(s)
    \/ \E s \in 1..MaxMsgSockets, f \in HookFrames : SocketMessage(s, f)
    \/ \E s \in 1..MaxMsgSockets : SocketGarbage(s)
    \/ \E s \in 1..MaxMsgSockets : SocketDrop(s)
    \/ \E t \in 1..MaxMsgSockets : TimerFire(t, MaxMsgSockets)

MsgSpec == Init /\ [][MsgNext]_vars

\* The chat page on the stream of one connection.
PageNext ==
    \/ SetSession("s1")
    \/ StatusResponse("s1", "running", "wss://a/ws", 1)
    \/ SocketOpen(1)
    \/ \E f \in PageFrames : SocketMessage(1, f)
    \/ EventsEffect

PageSpec == Init /\ [][PageNext]_vars

\* Turns submitted to the chat page while its connection comes and goes.
SendNext ==
    \/ \E c \in Contents, throws \in BOOLEAN : SendMessage(c, throws)
    \/ \E k \in 1..MaxTurns : ChatResponse(k, "s1")
    \/ \E k \in 1..MaxTurns : ChatFailure(k)
    \/ PollTick
    \/ \E url \in GoodUrls : StatusResponse("s1", "running", url, MaxSendSockets)
    \/ \E s \in 1..MaxSendSockets : SocketOpen(s)
    \/ \E s \in 1..MaxSendSockets : SocketDrop(s)
    \/ \E s \in 1..MaxSendSockets : SocketClosed(s)
    \/ \E t \in 1..MaxSendSockets : TimerFire(t, MaxSendSockets)

SendSpec == Init /\ [][SendNext]_vars

\* The readiness probe of a preview process that may start and exit any time.
ProbeNext ==
    \/ \E st \in HttpStatuses : ProcessStart(st)
    \/ ProcessExit
    \/ AwaitReady
    \/ \E garbled \in BOOLEAN : ProbeAttempt(garbled)

ProbeSpec == Init /\ [][ProbeNext]_vars

\* Entries appear in the workspace and the permission fix runs.
FsNext ==
    \/ \E n \in 1..MaxNodes, dir \in BOOLEAN, mode \in CreateModes : CreateEntry(n, dir, mode)
    \/ PermissionFix

FsSpec == Init /\ [][FsNext]_vars

\* Files are written into the workspace and the workspace is scanned.
ScanNext ==
    \/ \E path \in Paths, kind \in FileKinds : WriteFile(path, kind)
    \/ \E order \in Listings(DOMAIN files) : Scan(order)

ScanSpec == Init /\ [][ScanNext]_vars

\* The hook polling and streaming from a session that moves forward, over
\* connections that drop and are made again.
SessionNext ==
    \/ SetSession("s1")
    \/ PollTick
    \/ ServerAdvance
    \/ PublishStatus
    \/ ServeStatus
    \/ \E k \in 1..MaxInFlight : StatusAnswer(k, "wss://a/ws", MaxSessionSockets)
    \/ \E s \in 1..MaxSessionSockets : SocketOpen(s)
    \/ \E s \in 1..MaxSessionSockets : ServerSend(s)
    \/ \E s \in 1..MaxSessionSockets : SocketDrop(s)
    \/ \E t \in 1..MaxSessionSockets : TimerFire(t, MaxSessionSockets)

SessionSpec == Init /\ [][SessionNext]_vars

\* A conversation: the user's messages, the chat request and the streamed answer.
ChatNext ==
    \/ \E c \in ChatContents : SendMessage(c, FALSE)
    \/ \E k \in 1..MaxTurns : ChatResponse(k, "s1")
    \/ StatusResponse("s1", "running", "wss://a/ws", 1)
    \/ SocketOpen(1)
    \/ \E kind \in {"claude_text", "turn_complete"} :
          SocketMessage(1, JsonFrame(Ev(kind, NULL, <<"a">>)))
    \/ EventsEffect

ChatSpec == Init /\ [][ChatNext]_vars

\* The preview rendered with page lists while its selector is used.
PreviewNext ==
    \/ \E url \in DevUrls, pages \in PageLists : RenderPreview(url, pages)
    \/ ToggleOpen
    \/ HandleRefresh
    \/ \E i \in 1..2 : ClickPage(i)
    \/ \E i \in 1..2, j \in 1..2 : ClickSection(i, j)
    \/ \E i \in 1..2 : MenuPageSelect(i)
    \/ \E i \in 1..2, j \in 1..2 : MenuSectionSelect(i, j)

PreviewSpec == Init /\ [][PreviewNext]_vars

\* Display names are derived for elements of many shapes.
NameNext ==
    \E n \in {0, 1, 49, 50, 51}, m \in 0..2, gap \in 0..2, tagged \in BOOLEAN,
       id \in SectionIds : NameSection(n, m, gap, tagged, id)

NameSpec == Init /\ [][NameNext]_vars

\* The session manager serving concurrent create requests for one new session
\* id, while the session's worker publishes.
ManagerNext ==
    \/ \E c \in 1..NumCallers : CreateRequest(c)
    \/ \E c \in 1..NumCallers : CreateOrAttach(c)
    \/ \E k \in EventKinds : Publish(k)

ManagerSpec == Init /\ [][ManagerNext]_vars

\* The event bus of a session created by one request.
BusNext ==
    \/ CreateRequest(1)
    \/ CreateOrAttach(1)
    \/ \E k \in EventKinds : Publish(k)
    \/ \E s \in 1..NumSubscribers : Subscribe(s)
    \/ \E s \in 1..NumSubscribers : Deliver(s)

BusSpec == Init /\ [][BusNext]_vars

\* ------------------------------------------------------------------------
\* Claims about the connection life cycle
\* ------------------------------------------------------------------------
\* Sockets of session sid that are connecting or open.
LiveSockets(sid) ==
    {s \in DOMAIN sockets : /\ sockets[s].sid = sid
                            /\ sockets[s].readyState \in {"CONNECTING", "OPEN"}}

\* C1: while the hook is mounted, at every moment at most one WebSocket of the
\* session is CONNECTING or OPEN.
C1_AtMostOneLiveSocket ==
    mounted => \A sid \in Sessions : Cardinality(LiveSockets(sid)) <= 1

\* C2: after a change of the channel URL no socket to the old URL stays open:
\* while the hook is mounted, two sockets to different URLs are never open together.
C2_NeverBothUrlsOpen ==
    mounted => \A a, b \in DOMAIN sockets :
        (sockets[a].readyState = "OPEN" /\ sockets[b].readyState = "OPEN")
            => sockets[a].url = sockets[b].url

\* C3: the delay of the n-th consecutive reconnect attempt is 1 s doubled n-1
\* times, until the doubling reaches the cap of 30 s, where it stays.
C3_DelaysDoubleUpToCap ==
    \A t \in DOMAIN timers :
        timers[t].delay = Min(BaseDelayMs * Pow2(timers[t].attempt - 1), MaxDelayMs)

\* C4: every socket open resets the backoff counter: the first reconnect delay
\* computed after an open is the base delay of 1 s, whatever the counter was.
C4_FirstDelayAfterOpenIsBase ==
    afterOpen.opened => afterOpen.first \in {0, BaseDelayMs}

\* C4 witness: a socket opened when the counter stood at 2 or more, and the next
\* reconnect delay computed was the base delay.
C4_Witness == afterOpen.opened /\ afterOpen.resetFrom >= 2 /\ afterOpen.first = BaseDelayMs

\* C5: while the hook is mounted and a channel URL is known, the hook is never left
\* without a socket and without a pending reconnect timer.
C5_RetryAlwaysPending ==
    (mounted /\ refs.currentWsUrlRef # NULL)
        => (DOMAIN sockets # {} \/ DOMAIN timers # {})

\* C6: after the cleanup no socket of the session is connecting or open and no
\* reconnect timer or poll interval is pending.
C6_QuietAfterCleanup ==
    ~mounted => /\ \A sid \in Sessions : LiveSockets(sid) = {}
                /\ DOMAIN timers = {}
                /\ ~refs.pollIntervalRef

\* ------------------------------------------------------------------------
\* Claims about the stream and the chat page
\* ------------------------------------------------------------------------
\* C7: the events list equals the sequence of the successfully parsed stream
\* messages, in the order their message callbacks ran.
C7_EventsEqualReceived == state.events = received

\* C7 witness: three messages were appended, not all alike.
C7_Witness == Len(state.events) = MaxEvents /\ state.events[1] # state.events[2]

\* C8: once the events effect has caught up with the list, every event of the
\* list has been handled by it.
C8_NoEventSkipped ==
    effectDeps = [events |-> state.events, devUrl |-> devUrl]
        => \A i \in 1..Len(state.events) :
              \E k \in 1..Len(processed) : processed[k].index = i

\* ------------------------------------------------------------------------
\* Claims about the backend
\* ------------------------------------------------------------------------
\* C9: a subscriber has received, or still has queued, exactly the published
\* events in publication order: all those published before it attached and all
\* those published since, without gap or duplicate.
C9_ReplayThenLive ==
    \A s \in DOMAIN subs : subs[s].attached => subs[s].got \o subs[s].queue = busLog

\* C9 witness: a subscriber that attached after two events has received them and
\* a later one.
C9_Witness ==
    \E s \in DOMAIN subs :
        /\ subs[s].attached /\ subs[s].attachedAt >= 2
        /\ Len(busLog) > subs[s].attachedAt
        /\ subs[s].got = busLog

\* C10: concurrent create requests with the same new session id spawn exactly one
\* backing worker, and every caller receives that session id.
C10_OneWorkerSameId ==
    /\ spawned <= 1
    /\ \A c \in DOMAIN callers :
          callers[c].pc = "done" => (callers[c].result = NewSessionId /\ spawned = 1)

\* C10 witness: all callers were served, one of them while all requests were pending.
C10_Witness ==
    /\ \A c \in DOMAIN callers : callers[c].pc = "done"
    /\ \E c \in DOMAIN callers : callers[c].racing = NumCallers
    /\ spawned = 1

C12_DevUrlImmutable == [][devUrl # NULL => devUrl' = devUrl]_vars

\* C12 witness: the effect has handled a dev_server_started event carrying another
\* URL than the one devUrl holds.
C12_Witness ==
    /\ devUrl = "https://preview-1"
    /\ state.events # << >>
    /\ effectDeps = [events |-> state.events, devUrl |-> devUrl]
    /\ state.events[Len(state.events)] = Ev("dev_server_started", NULL, <<"https://preview-2">>)
    /\ processed[Len(processed)].index = Len(state.events)

C14_ProbeLoopBounded ==
    /\ probe.attempt <= MaxAttempts
    /\ probe.pc = "probing" => probe.attempt < MaxAttempts
    /\ probe.pc = "timedOut" =>
          probe.attempt = MaxAttempts /\ probe.elapsed = MaxAttempts * ProbeIntervalMs
    /\ probe.pc # "ready" => probe.elapsed = probe.attempt * ProbeIntervalMs
    /\ ~probe.heard => probe.pc # "ready"
    /\ (~probe.heard /\ probe.attempt = MaxAttempts) => probe.pc = "timedOut"

\* C14 witness: nothing ever listened and the loop timed out after 30 attempts.
C14_Witness ==
    /\ ~probe.heard /\ ~port.listening
    /\ probe.pc = "timedOut" /\ probe.attempt = 30 /\ probe.elapsed = 30000

\* C15: the permission fix applied to a tree it was already applied to changes no
\* permission bits.
C15_PermissionFixIdempotent ==
    /\ ChmodR(ChmodR(tree)) = ChmodR(tree)
    /\ fixRuns >= 1 => ChmodR(tree) = tree

\* C15 witness: the fix ran twice on a tree with a directory created without
\* execute bits, a file created executable by its owner and a plain file, and
\* changed the bits of each of them the first time.
C15_Witness ==
    /\ fixRuns = 2
    /\ \E n \in DOMAIN tree : tree[n].dir /\ tree[n].orig = 384 /\ tree[n].mode = 493
    /\ \E n \in DOMAIN tree : ~tree[n].dir /\ tree[n].orig = 448 /\ tree[n].mode = 493
    /\ \E n \in DOMAIN tree : ~tree[n].dir /\ tree[n].orig = 384 /\ tree[n].mode = 420

\* ------------------------------------------------------------------------
\* Claims about the page scan
\* ------------------------------------------------------------------------
\* C16: all scans of an unchanged file set return the same result, whatever order
\* the directory listing returned the files in.
C16_ScanDeterministic ==
    \A i \in 1..Len(scans) : scans[i].result = scans[1].result

\* C16 witness: two scans of a workspace with index.html and two other pages, the
\* second under another listing order.
C16_Witness ==
    /\ Len(scans) = 2 /\ scans[2].reordered
    /\ {IndexPath, UpperPath, SubPath} \subseteq DOMAIN files
    /\ \A p \in DOMAIN files : files[p].readable
    /\ scans[2].result.total_pages >= 3

\* C17: in a scan result the pages of index.html come first, and the other pages
\* follow in ascending order of their relative paths.
C17_IndexFirstThenByPath ==
    \A k \in 1..Len(scans) :
        LET pages == scans[k].result.pages
        IN  /\ (\E i \in 1..Len(pages) : pages[i].path = IndexPath)
                   => pages[1].path = IndexPath
            /\ \A i, j \in 1..Len(pages) :
                  (i < j /\ pages[i].path # IndexPath) =>
                      /\ pages[j].path # IndexPath
                      /\ ~LexLess(pages[j].path, pages[i].path)

\* C17 witness: a result with index.html in front of Z.html and s/c.html, found
\* under a listing that had index.html last.
C17_Witness ==
    /\ Len(scans) = 1
    /\ firstOrder = <<SubPath, UpperPath, IndexPath>>
    /\ \A p \in DOMAIN files : files[p].readable
    /\ LET pages == scans[1].result.pages
       IN  /\ pages[1].path = IndexPath
           /\ pages[Len(pages) - 1].path = UpperPath
           /\ pages[Len(pages)].path = SubPath

\* C18: a scan result holds exactly one page for each readable HTML file that is
\* not hidden, and total_pages is the number of those files.
C18_OnePagePerHtmlFile ==
    \A k \in 1..Len(scans) :
        LET r    == scans[k].result
            html == {p \in DOMAIN files :
                        EndsWith(p, HtmlSuffix) /\ ~Hidden(p) /\ files[p].readable}
        IN  /\ r.total_pages = Cardinality(html)
            /\ \A p \in html :
                  Cardinality({i \in 1..Len(r.pages) : r.pages[i].path = p}) = 1

\* C19: no page of a scan result has more than 20 sections.
C19_SectionsCapped ==
    \A k \in 1..Len(scans) :
        \A i \in 1..Len(scans[k].result.pages) :
            Len(scans[k].result.pages[i].sections) <= 20

\* C19 witness: a file with 21 elements carrying an id gave a page of 20 sections.
C19_Witness ==
    \E k \in 1..Len(scans) :
        \E i \in 1..Len(scans[k].result.pages) :
            LET page == scans[k].result.pages[i]
            IN  files[page.path].ids = 21 /\ Len(page.sections) = 20

\* C20: a scan never raises; a file that cannot be read has no page, every file
\* that can be read and that the scan found has one, and with no such file the
\* page list is empty and total_pages is 0.
C20_FileErrorSkipsFile ==
    \A k \in 1..Len(scans) :
        LET r == scans[k].result
        IN  /\ ~r.raised
            /\ \A p \in DOMAIN files :
                  (EndsWith(p, HtmlSuffix) /\ ~Hidden(p)) =>
                      (files[p].readable <=> \E i \in 1..Len(r.pages) : r.pages[i].path = p)
            /\ (\A p \in DOMAIN files : EndsWith(p, HtmlSuffix) => ~files[p].readable)
                  => (r.pages = << >> /\ r.total_pages = 0)

\* C20 witness: index.html could not be read, and the result holds the page of
\* s/c.html and none of index.html.
C20_Witness ==
    /\ IndexPath \in DOMAIN files /\ ~files[IndexPath].readable
    /\ SubPath \in DOMAIN files /\ files[SubPath].readable
    /\ scans # << >>
    /\ scans[1].result.pages # << >>
    /\ \A i \in 1..Len(scans[1].result.pages) : scans[1].result.pages[i].path = SubPath

\* The text an element of the given shape shows: the x, one space when white
\* space separates them from the y, the y.
C21_ShownText ==
    Run(120, section.n)
    \o (IF section.n > 0 /\ section.m > 0 /\ section.gap > 0 THEN <<32>> ELSE << >>)
    \o Run(121, section.m)

\* C21 as stated: every display name is non-empty and at most 53 characters long.
C21_NameAtMost53 == Len(section.name) >= 1 /\ Len(section.name) <= 53

\* C21 amended: the display name is non-empty; it is the shown text when that is
\* at most 50 characters long, its first 50 characters followed by "..." when it
\* is longer, and the section id, whatever its length, when the text is empty.
C21_NameFromTextOrId ==
    /\ section.name # << >>
    /\ Len(C21_ShownText) \in 1..50 => section.name = C21_ShownText
    /\ Len(C21_ShownText) > 50 =>
          section.name = SubSeq(C21_ShownText, 1, 50) \o <<46, 46, 46>>
    /\ C21_ShownText # << >> => Len(section.name) <= 53
    /\ C21_ShownText = << >> => section.name = section.id

\* C21 witness: a tagged text of 51 x, white space and 2 y was cut to 53 characters.
C21_Witness ==
    /\ section.n = 51 /\ section.m = 2 /\ section.gap = 2 /\ section.tagged
    /\ Len(section.name) = 53
    /\ section.name[50] = 120 /\ section.name[51] = 46

\* C22: after a section is selected, the iframe shows the section's page with the
\* section id as fragment (dropdown), or that URL was handed to onNavigate (menu).
C22_SectionSelectKeepsFragment ==
    lastClick.kind = "section" =>
        IF lastClick.variant = "dropdown"
        THEN currentUrl = StripTrailingSlash(preview.devUrl)
                            \o <<"/", lastClick.page.path, "#", lastClick.section>>
        ELSE /\ Len(lastClick.path) >= 3
             /\ SubSeq(lastClick.path, Len(lastClick.path) - 2, Len(lastClick.path))
                    = <<lastClick.page.url, "#", lastClick.section>>

\* C23: a page with zero sections is listed with no expand control, no section
\* list and no submenu; clicking it navigates to the page, closes the dropdown
\* and expands nothing.
C23_PageWithoutSectionsIsPlain ==
    /\ [](\A i \in 1..Len(preview.pages) :
            Len(preview.pages[i].sections) = 0 =>
                /\ ~HasExpandControl(preview.pages[i])
                /\ ~SectionListShown(preview.pages[i])
                /\ ~IsSubmenu(preview.pages[i]))
    /\ [][\A i \in 1..2 :
            /\ i <= Len(preview.pages) /\ Len(preview.pages[i].sections) = 0 =>
                /\ ClickPage(i) =>
                      /\ currentPath' = <<preview.pages[i].path>>
                      /\ currentUrl' = StripTrailingSlash(preview.devUrl)
                                          \o <<"/", preview.pages[i].path>>
                      /\ ~isOpen'
                      /\ expandedPage' = expandedPage
                /\ MenuPageSelect(i) =>
                      lastClick'.path = preview.devUrl \o <<preview.pages[i].url>>]_vars

\* C23 witness: the page without sections was clicked in the dropdown while the
\* expanded page is a page that has no sections any more.
C23_Witness ==
    /\ lastClick.kind = "page" /\ lastClick.variant = "dropdown"
    /\ lastClick.page.sections = << >>
    /\ ~isOpen
    /\ \E i \in 1..Len(preview.pages) :
          /\ expandedPage = preview.pages[i].path
          /\ preview.pages[i].sections = << >>
          /\ currentPath = <<preview.pages[i].path>>

\* C24: once the events effect has handled a pages_discovered event as the latest
\* event of the stream and the preview is rendered, the preview holds the page
\* list of that event.
C24_PagesHandedToPreview ==
    /\ processed # << >>
    /\ processed[Len(processed)].event = "pages_discovered"
    /\ devUrl # NULL
    => WebsitePreviewProps.pages = state.events[processed[Len(processed)].index].payload

\* C25: the status exposed by the hook never goes back to an earlier lifecycle
\* state.
C25_StatusNeverGoesBack == [][Rank(state'.status) >= Rank(state.status)]_vars

\* C26: while the hook is mounted and the socket it holds is OPEN, isConnected is
\* true: the callbacks of a replaced socket never mark the hook disconnected.
C26_OpenSocketMeansConnected ==
    mounted /\ IsOpen(World, refs.wsRef) => state.isConnected

\* C27: each published event appears at most once in the hook's events list.
C27_EachEventAtMostOnce ==
    \A i, j \in 1..Len(state.events) : state.events[i] = state.events[j] => i = j

\* C28: the message list holds at most one message with id "streaming-response";
\* it holds none when the event handled last is turn_complete; and no message
\* holds both a text streamed before a turn_complete of the list and a
\* different text streamed after it.
C28_OneStreamingMessagePerTurn ==
    /\ Cardinality({i \in 1..Len(messages) : messages[i].id = StreamingId}) <= 1
    /\ processed # << >> /\ processed[Len(processed)].event = "turn_complete"
          => \A i \in 1..Len(messages) : messages[i].id # StreamingId
    /\ \A k \in 1..Len(state.events) :
          state.events[k].event = "turn_complete" =>
            \A i \in 1..(k - 1), j \in (k + 1)..Len(state.events) :
                /\ state.events[i].event = "claude_text"
                /\ state.events[j].event = "claude_text"
                /\ state.events[i].payload # state.events[j].payload
                => \A m \in 1..Len(messages) :
                      ~(/\ Includes(messages[m].content, state.events[i].payload[1])
                        /\ Includes(messages[m].content, state.events[j].payload[1]))

\* C29: a user message of the list is still in the list, unaltered, after any
\* step.
C29_UserMessagesKept ==
    [][\A i \in 1..Len(messages) :
          messages[i].role = "user"
              => \E j \in 1..Len(messages') : messages'[j] = messages[i]]_vars

\* C30: the step that receives a frame that is not JSON changes neither the
\* hook's state (events, status, isConnected, error) nor its refs (the backoff
\* counter, the socket held) nor the sockets and timers, so the connection stays
\* open; and the valid messages received before and after it are all in the
\* events list.
C30_GarbageFrameDiscarded ==
    /\ [][discarded' # discarded =>
            /\ state' = state /\ refs' = refs
            /\ sockets' = sockets /\ timers' = timers]_vars
    /\ [](discarded # << >> => state.events = received)

\* C30 witness: a valid message was appended on the same open connection after
\* a frame that is not JSON was discarded.
C30_Witness ==
    /\ discarded # << >>
    /\ Len(state.events) > discarded[1]
    /\ state.isConnected /\ nextSocket = 2 /\ IsOpen(World, refs.wsRef)

====
